---- MODULE Spec2Model ----
(***************************************************************************)
(* Static perfect-hash sets: hd::perfect_set (hash and displace) and the   *)
(* two fks::perfect_set variants (shared element array / growing           *)
(* per-bucket sub-tables).                                                 *)
(*                                                                         *)
(* Machine words are WordBits wide.  The sources use 64-bit words; the     *)
(* model keeps every word operation modulo 2^WordBits and scales the       *)
(* literals that are derived from the word width with it (32 = half a      *)
(* word, 56 = seven eighths of a word).                                    *)
(***************************************************************************)
EXTENDS Integers, Sequences, FiniteSets, TLC

(* ------------------------------ bounds --------------------------------- *)

WordBits == 8

MaxN == 3

MaxLambda == 4

(* ------------------------- word arithmetic ----------------------------- *)

Pow2(n) == 2 ^ n

Word == Pow2(WordBits)

HalfBits == WordBits \div 2

Wrap(x) == x % Word

Shl(x, n) == Wrap(x * Pow2(n))

Shr(x, n) == x \div Pow2(n)

RECURSIVE BitAnd(_, _)
BitAnd(a, b) ==
  IF a = 0 \/ b = 0 THEN 0
  ELSE (a % 2) * (b % 2) + 2 * BitAnd(a \div 2, b \div 2)

RECURSIVE bit_width(_)
bit_width(n) == IF n = 0 THEN 0 ELSE 1 + bit_width(n \div 2)

bit_ceil(n) == IF n <= 1 THEN 1 ELSE Pow2(bit_width(n - 1))

RECURSIVE popcount(_)
popcount(n) == IF n = 0 THEN 0 ELSE (n % 2) + popcount(n \div 2)

(* --------------------------- size policies ----------------------------- *)

(* mutant: rounds down *)
SizeExp_floor(n) == IF n <= 2 THEN 1 ELSE bit_width(n) - 1

SizeExp(n) == IF n <= 2 THEN 1 ELSE bit_width(n - 1)

lower_size_index(n) == Pow2(SizeExp(n)) - 1

lower_size(size_index_) == size_index_ + 1

lower_position(hash, size_index_) == BitAnd(hash, size_index_)

(* mutant: a larger request gets the smaller table *)
upper_size_index_shrinking(n) == IF n <= 2 THEN WordBits - 2 ELSE WordBits - 1

upper_size_index(n) == WordBits - SizeExp(n)

upper_size(size_index_) == Pow2(WordBits - size_index_)

upper_position(hash, size_index_) == Shr(hash, size_index_)

min_size == 2


(* ------------------------------- keys ---------------------------------- *)

(* Keys are unsigned integers one bit wider than a hash word.  Hash is a   *)
(* template parameter of the sets; the hasher used here keeps the low word *)
(* of the key, so k and k + Word are different keys with equal hashes.     *)
h(x) == x % Word

(* Pred defaults to std::equal_to<T>. *)
pred(a, b) == a = b

(* T{}: the value vector::resize fills new elements with. *)
DefaultT == 0

Keys ==
  { 0, 1, 2, Pow2(HalfBits), Pow2(WordBits - 2), Pow2(WordBits - 1) + 1,
    Word }

Lambdas == 0 .. MaxLambda

default_lambda == 4

RECURSIVE SeqsUpTo(_, _)
SeqsUpTo(S, n) ==
  IF n = 0 THEN { <<>> }
  ELSE LET shorter == SeqsUpTo(S, n - 1)
       IN  shorter \cup { Append(s, x) : s \in shorter, x \in S }

Inputs == SeqsUpTo(Keys, MaxN)

(* ------------------------------ state ---------------------------------- *)

VARIABLES
  scheme,                \* "HD", "FKSA" (fks_perfect_set.hpp) or "FKSB"
  UseMask,               \* template parameter of the FKSB set
  shiftUB,               \* what a shift by >= WordBits bits yields in this build
  input,                 \* [first, last)
  lambda0,               \* the constructor's lambda argument
  prev_lambda,           \* lambda at which this input was built before, or 0
  retried,               \* << members, sorted order >> of the set this input
                         \* gave after failed attempts, << >> when not kept
  lambda,                \* the constructor's loop variable
  pc,                    \* "loop", "place", "done"
  status,                \* "running", "ok" or the exception thrown
  attempts,              \* lambdas construct() was called with, in order
  size_,
  dsize_index,
  displacements,
  size_index,
  end_,
  jsize_index,
  positions,
  jumps,
  capacity_,
  elements,
  mask,
  buckets,
  sorted_bucket_indices,
  i,
  probe,                 \* << x >> after find(x), << >> before any find
  cursor,                \* position returned by the last find
  oob,                   \* the last call read outside elements / mask
  yielded                \* << s >> after a traversal that yielded s

vars ==
  << scheme, UseMask, shiftUB, input, lambda0, prev_lambda, retried, lambda,
     pc, status, attempts, size_,
     dsize_index, displacements, size_index, end_, jsize_index, positions,
     jumps, capacity_, elements, mask, buckets, sorted_bucket_indices, i,
     probe, cursor, oob, yielded >>

(* template parameters and constructor arguments *)
params == << scheme, UseMask, shiftUB, input, lambda0, prev_lambda, retried >>

setVars ==
  << size_, dsize_index, displacements, size_index, end_, jsize_index,
     positions, jumps, capacity_, elements, mask >>

(* std::vector as a function on 0 .. size-1 *)
EmptyVec == [k \in {} |-> 0]

VecSize(v) == Cardinality(DOMAIN v)

Resize(v, n, fill) ==
  [k \in 0 .. n - 1 |-> IF k \in DOMAIN v THEN v[k] ELSE fill]

InitWith(schemes, masks, ubs, inputs, lambdas) ==
  /\ scheme \in schemes
  /\ UseMask \in masks
  /\ shiftUB \in ubs
  /\ input \in inputs
  /\ lambda0 \in lambdas
  /\ prev_lambda = 0
  /\ retried = << >>
  /\ lambda = lambda0
  /\ pc = "loop"
  /\ status = "running"
  /\ attempts = <<>>
  /\ size_ = 0
  /\ dsize_index = 0
  /\ displacements = EmptyVec
  /\ size_index = 0
  /\ end_ = 0
  /\ jsize_index = 0
  /\ positions = EmptyVec
  /\ jumps = EmptyVec
  /\ capacity_ = 0
  /\ elements = EmptyVec
  /\ mask = EmptyVec
  /\ buckets = EmptyVec
  /\ sorted_bucket_indices = <<>>
  /\ i = 0
  /\ probe = << >>
  /\ cursor = 0
  /\ oob = FALSE
  /\ yielded = << >>

(* ------------------------ bucket classification ------------------------ *)

bucket_entry(it) == [it |-> it, hash |-> h(input[it])]

(* the entries among the first `it` inputs that go to bucket b, in input   *)
(* order; bucket_of[it] is the bucket index of input[it]                   *)
RECURSIVE BucketList(_, _, _)
BucketList(bucket_of, b, it) ==
  IF it = 0 THEN << >>
  ELSE IF bucket_of[it] = b
       THEN Append(BucketList(bucket_of, b, it - 1), bucket_entry(it))
       ELSE BucketList(bucket_of, b, it - 1)

(* the classification loop: buckets[b] for each of the n buckets *)
Classify(n, bucket_of) ==
  [b \in 0 .. n - 1 |-> BucketList(bucket_of, b, Len(input))]

(* std::sort with comparator size(i1) > size(i2): any permutation with     *)
(* non-increasing sizes (std::sort is not stable).  Empty buckets are kept *)
(* in index order: every loop over the sorted indices stops at the first   *)
(* empty bucket, so their relative order is never read.                    *)
RECURSIVE DescendingOrders(_, _)
DescendingOrders(bs, rest) ==
  IF rest = {} THEN { <<>> }
  ELSE LET mx   == CHOOSE n \in { Len(bs[b]) : b \in rest } :
                     \A b \in rest : Len(bs[b]) <= n
           tops == { b \in rest : Len(bs[b]) = mx }
           head == IF mx = 0
                   THEN { CHOOSE b \in tops : \A c \in tops : b <= c }
                   ELSE tops
       IN  UNION { { <<b>> \o s : s \in DescendingOrders(bs, rest \ {b}) }
                   : b \in head }

SortedBucketIndices(bs) == DescendingOrders(bs, DOMAIN bs)

(* first (j, k), k < j, with equal hashes, in the order the loops visit    *)
HashPairs(bucket) ==
  { jk \in (1 .. Len(bucket)) \X (1 .. Len(bucket)) :
      jk[2] < jk[1] /\ bucket[jk[1]].hash = bucket[jk[2]].hash }

FirstHashPair(bucket) ==
  CHOOSE jk \in HashPairs(bucket) :
    \A o \in HashPairs(bucket) :
      jk[1] < o[1] \/ (jk[1] = o[1] /\ jk[2] <= o[2])

DuplicateKind(bucket) ==
  LET jk == FirstHashPair(bucket)
  IN  IF pred(input[bucket[jk[1]].it], input[bucket[jk[2]].it])
      THEN "duplicate_element" ELSE "duplicate_hash"

(* --------------------------- hd::perfect_set --------------------------- *)

displacement_position(hash) == lower_position(hash, dsize_index)

(* d = <<first, second>> *)
element_position(hash, d) ==
  upper_position(Wrap(d[1] + Wrap(d[2] * hash)), size_index)

(* mutant: d0 is shifted one bit too far *)
displacement_info_far(d0, d1) ==
  << Shl(d0, size_index + 1), Wrap(Shl(d1, HalfBits) + 1) >>

displacement_info(d0, d1) == << Shl(d0, size_index), Wrap(Shl(d1, HalfBits) + 1) >>

(* lines 193-198: mask1 after marking members j.., and whether every one  *)
(* landed on a free position below size_                                   *)
RECURSIVE HDMark(_, _, _, _)
HDMark(bucket, j, d, mask1) ==
  IF j > Len(bucket) THEN [ok |-> TRUE, mask |-> mask1]
  ELSE LET pos == element_position(bucket[j].hash, d)
       IN  IF pos >= size_ \/ mask1[pos] THEN [ok |-> FALSE, mask |-> mask1]
           ELSE HDMark(bucket, j + 1, d, [mask1 EXCEPT ![pos] = TRUE])

NoDisplacement == << >>

(* lines 189-207: the first d1 of the inner loop whose positions are free *)
RECURSIVE HDSearchD1(_, _, _, _)
HDSearchD1(bucket, extended_size, d0, d1) ==
  IF d1 >= extended_size THEN NoDisplacement
  ELSE IF HDMark(bucket, 1, displacement_info(d0, d1), mask).ok
       THEN displacement_info(d0, d1)
       ELSE HDSearchD1(bucket, extended_size, d0, d1 + 1)

(* lines 188-208: the first (d0, d1) in loop order whose positions are     *)
(* free, or NoDisplacement when the loops run out                          *)
RECURSIVE HDSearch(_, _, _)
HDSearch(bucket, extended_size, d0) ==
  IF d0 >= extended_size THEN NoDisplacement
  ELSE IF HDSearchD1(bucket, extended_size, d0, 0) # NoDisplacement
       THEN HDSearchD1(bucket, extended_size, d0, 0)
       ELSE HDSearch(bucket, extended_size, d0 + 1)

(* lines 201-204 *)
RECURSIVE HDWrite(_, _, _, _)
HDWrite(bucket, j, d, elems) ==
  IF j > Len(bucket) THEN elems
  ELSE HDWrite(bucket, j + 1, d,
               [elems EXCEPT ![element_position(bucket[j].hash, d)] =
                  input[bucket[j].it]])

(* line 199: the index the committed pair is stored at (the loop counter)  *)
HDCommitIndex(k) == k

(* construct(), lines 144-173 *)
HDBegin ==
  /\ scheme = "HD"
  /\ pc = "loop"
  /\ lambda # 0
  /\ attempts' = Append(attempts, lambda)
  /\ size_' = Len(input)
  /\ dsize_index' = lower_size_index(size_' \div lambda)
  /\ displacements' =
       Resize(displacements, lower_size(dsize_index'), << 0, 0 >>)
  /\ size_index' = upper_size_index(size_' + 1)
  /\ elements' = Resize(elements, size_', DefaultT)
  /\ end_' = size_'
  /\ buckets' = Classify(VecSize(displacements'),
                         [it \in 1 .. Len(input) |->
                            lower_position(h(input[it]), dsize_index')])
  /\ sorted_bucket_indices' \in SortedBucketIndices(buckets')
  /\ mask' = [p \in 0 .. size_' - 1 |-> FALSE]
  /\ i' = 0
  /\ pc' = "place"
  /\ UNCHANGED << params, lambda, status,
                  jsize_index, positions, jumps, capacity_, probe, cursor,
                  oob, yielded >>

ReturnTrue ==
  /\ pc' = "done"
  /\ status' = "ok"
  /\ UNCHANGED << lambda >>

(* mutant: the retry decrements lambda *)
ReturnFalse_decrement ==
  /\ pc' = "loop"
  /\ lambda' = lambda - 1
  /\ UNCHANGED << status >>

(* construct() returned false: lambda/=2 and back to while(lambda) *)
ReturnFalse ==
  /\ pc' = "loop"
  /\ lambda' = lambda \div 2
  /\ UNCHANGED << status >>

Throw(what) ==
  /\ pc' = "done"
  /\ status' = what
  /\ UNCHANGED << lambda >>

(* construct(), one iteration of the loop of lines 175-211 (or its exit)  *)
HDPlace ==
  /\ scheme = "HD"
  /\ pc = "place"
  /\ UNCHANGED << params, attempts, size_,
                  dsize_index, size_index, end_, jsize_index, positions,
                  jumps, capacity_, buckets, sorted_bucket_indices, probe,
                  cursor, oob, yielded >>
  /\ IF i >= VecSize(buckets)
     THEN ReturnTrue /\ UNCHANGED << displacements, elements, mask, i >>
     ELSE \E d \in { HDSearch(buckets[sorted_bucket_indices[i + 1]],
                              upper_size(size_index), 0) } :
          LET bucket == buckets[sorted_bucket_indices[i + 1]]
          IN  IF Len(bucket) = 0
              THEN ReturnTrue
                   /\ UNCHANGED << displacements, elements, mask, i >>
              ELSE IF HashPairs(bucket) # {}
              THEN Throw(DuplicateKind(bucket))
                   /\ UNCHANGED << displacements, elements, mask, i >>
              ELSE IF d = NoDisplacement
              THEN ReturnFalse
                   /\ UNCHANGED << displacements, elements, mask, i >>
              ELSE /\ displacements' =
                        [displacements EXCEPT ![HDCommitIndex(i)] = d]
                   /\ mask' = HDMark(bucket, 1, d, mask).mask
                   /\ elements' = HDWrite(bucket, 1, d, elements)
                   /\ i' = i + 1
                   /\ UNCHANGED << lambda, pc, status >>

(* perfect_set(): while(lambda) is over *)
ConstructionFailure ==
  /\ pc = "loop"
  /\ lambda = 0
  /\ Throw("construction_failure")
  /\ UNCHANGED << params, attempts, setVars,
                  buckets, sorted_bucket_indices, i, probe, cursor, oob, yielded >>

(* find(), lines 124-125 *)
HDProbePos(x) ==
  LET hash == h(x)
  IN  element_position(hash, displacements[displacement_position(hash)])

(* mutant: the lookup does not compare the stored element *)
HDFindPos_unchecked(x) ==
  IF HDProbePos(x) >= size_ THEN size_ ELSE HDProbePos(x)

(* find(), lines 126-127 *)
HDFindPos(x) ==
  LET pos == HDProbePos(x)
  IN  IF pos >= size_ \/ ~pred(x, elements[pos]) THEN size_ ELSE pos

(* mutant: the stored element is compared before pos is tested *)
HDReads_unguarded(x) == { HDProbePos(x) }

(* find(), line 126: the indices of elements the call reads; || does not   *)
(* evaluate elements[pos] when pos>=size_                                  *)
HDReads(x) == IF HDProbePos(x) >= size_ THEN {} ELSE { HDProbePos(x) }

HDFind ==
  /\ scheme = "HD"
  /\ pc = "done"
  /\ status = "ok"
  /\ \E x \in Keys :
       /\ probe' = << x >>
       /\ cursor' = HDFindPos(x)
       /\ oob' = (\E p \in HDReads(x) : p \notin DOMAIN elements)
  /\ yielded' = << >>
  /\ UNCHANGED << params, lambda, pc, status,
                  attempts, setVars, buckets, sorted_bucket_indices, i >>

(* ------------------- fks::perfect_set, shared array -------------------- *)

(* mutant: the lookup takes the bucket index from the low bits *)
jump_position_low(hash) == lower_position(hash, Pow2(WordBits - jsize_index) - 1)

jump_position(hash) == upper_position(hash, jsize_index)

(* unsigned char *)
Byte(x) == x % 256

(* jump_info::set *)
jump_info_set(shift, width) ==
  [shl |-> Byte(WordBits - shift - width), shr |-> Byte(WordBits - width)]

(* jump_info's member initialisers *)
jump_info_default == [shl |-> 0, shr |-> WordBits]

(* hash<<n and hash>>n with n >= WordBits are undefined: the build either  *)
(* uses the low bits of the count (x86) or shifts everything out           *)
ShlCount(x, n) ==
  IF n < WordBits THEN Shl(x, n)
  ELSE IF shiftUB = "wrap" THEN Shl(x, n % WordBits) ELSE 0

ShrCount(x, n) ==
  IF n < WordBits THEN Shr(x, n)
  ELSE IF shiftUB = "wrap" THEN Shr(x, n % WordBits) ELSE 0

element_offset(hash, jmp) == ShrCount(ShlCount(hash, jmp.shl), jmp.shr)

fksa_element_position(hash, pos, jmp) == pos + element_offset(hash, jmp)

(* classification loops of both fks sets: the (new, old) input positions   *)
(* for which the walk of new's bucket list meets old with new's hash       *)
FKSHashPairsOf(bs) ==
  UNION { { << bs[b][jk[1]].it, bs[b][jk[2]].it >> : jk \in HashPairs(bs[b]) }
          : b \in DOMAIN bs }

(* mutant: the exception of the last iterator that meets an equal hash *)
FKSDuplicateKind_last(bs) ==
  LET pairs == FKSHashPairsOf(bs)
      first == CHOOSE p \in pairs :
                 \A o \in pairs :
                   p[1] > o[1] \/ (p[1] = o[1] /\ p[2] <= o[2])
  IN  IF pred(input[first[2]], input[first[1]])
      THEN "duplicate_element" ELSE "duplicate_hash"

(* the exception of the first iterator that meets an equal hash; it meets  *)
(* the earliest such node of its list first                                *)
FKSDuplicateKind(bs) ==
  LET pairs == FKSHashPairsOf(bs)
      first == CHOOSE p \in pairs :
                 \A o \in pairs :
                   p[1] < o[1] \/ (p[1] = o[1] /\ p[2] <= o[2])
  IN  IF pred(input[first[2]], input[first[1]])
      THEN "duplicate_element" ELSE "duplicate_hash"

(* lines 219-226: the members' offsets in list order *)
Offsets(bucket, jmp) ==
  [j \in 1 .. Len(bucket) |-> element_offset(bucket[j].hash, jmp)]

Distinct(seq) ==
  \A a, b \in 1 .. Len(seq) : a # b => seq[a] # seq[b]

(* mutant: the slots are not tested for being free *)
FKSAFree_unmasked(offsets, pos) ==
  \A j \in 1 .. Len(offsets) : ~(pos + offsets[j] >= size_)

(* mutant: only the first member's slot is tested *)
FKSAFree_first(offsets, pos) ==
  \A j \in 1 .. Len(offsets) :
    j = 1 => ~(pos + offsets[j] >= size_ \/ ~mask[pos + offsets[j]])

(* lines 229-231 *)
FKSAFree(offsets, pos) ==
  \A j \in 1 .. Len(offsets) :
    ~(pos + offsets[j] >= size_ \/ ~mask[pos + offsets[j]])

(* lines 228-244: first pos of the loop at which every offset is free *)
RECURSIVE FKSAFirstPos(_, _, _)
FKSAFirstPos(offsets, max_off, pos) ==
  IF ~(pos + max_off < size_) THEN -1
  ELSE IF FKSAFree(offsets, pos) THEN pos
  ELSE FKSAFirstPos(offsets, max_off, pos + 1)

NoJump == [found |-> FALSE]

(* lines 215-247: first wd of the inner loop, with its pos, or NoJump *)
RECURSIVE FKSASearchWd(_, _, _, _)
FKSASearchWd(bucket, max_off, sh, wd) ==
  IF ~(wd < WordBits) THEN NoJump
  ELSE LET jmp     == jump_info_set(sh, wd)
           offsets == Offsets(bucket, jmp)
           pos     == IF Distinct(offsets)
                      THEN FKSAFirstPos(offsets, max_off, 0) ELSE -1
       IN  IF pos >= 0
           THEN [found |-> TRUE, pos |-> pos, jmp |-> jmp, offsets |-> offsets,
                 sh |-> sh, wd |-> wd]
           ELSE FKSASearchWd(bucket, max_off, sh, wd + 1)

(* lines 214-248: first (sh, wd, pos) in loop order, or NoJump *)
RECURSIVE FKSASearch(_, _, _, _)
FKSASearch(bucket, max_off, min_wd, sh) ==
  IF ~(sh <= WordBits - min_wd) THEN NoJump
  ELSE IF FKSASearchWd(bucket, max_off, sh, min_wd).found
       THEN FKSASearchWd(bucket, max_off, sh, min_wd)
       ELSE FKSASearch(bucket, max_off, min_wd, sh + 1)

(* lines 211-248 for one bucket *)
FKSAPlacement(bucket) ==
  LET max_off == bit_ceil(Len(bucket)) - 1
      min_wd  == popcount(max_off)
  IN  FKSASearch(bucket, max_off, min_wd, 0)

(* lines 233-238 *)
RECURSIVE FKSAWrite(_, _, _, _, _)
FKSAWrite(bucket, j, offsets, pos, elems) ==
  IF j > Len(bucket) THEN elems
  ELSE FKSAWrite(bucket, j + 1, offsets, pos,
                 [elems EXCEPT ![pos + offsets[j]] = input[bucket[j].it]])

(* construct(), lines 166-205 *)
FKSABegin ==
  /\ scheme = "FKSA"
  /\ pc = "loop"
  /\ lambda # 0
  /\ attempts' = Append(attempts, lambda)
  /\ size_' = Len(input)
  /\ jsize_index' = upper_size_index(size_' \div lambda)
  /\ positions' = Resize(positions, upper_size(jsize_index'), 0)
  /\ jumps' = Resize(jumps, VecSize(positions'), jump_info_default)
  /\ elements' = Resize(elements, size_', DefaultT)
  /\ buckets' = Classify(VecSize(jumps'),
                         [it \in 1 .. Len(input) |->
                            upper_position(h(input[it]), jsize_index')])
  /\ i' = 0
  /\ IF FKSHashPairsOf(buckets') # {}
     THEN /\ Throw(FKSDuplicateKind(buckets'))
          /\ UNCHANGED << sorted_bucket_indices, mask >>
     ELSE /\ sorted_bucket_indices' \in SortedBucketIndices(buckets')
          /\ mask' = [p \in 0 .. size_' - 1 |-> TRUE]
          /\ pc' = "place"
          /\ UNCHANGED << lambda, status >>
  /\ UNCHANGED << params, dsize_index,
                  displacements, size_index, end_, capacity_, probe, cursor,
                  oob, yielded >>

(* construct(), one iteration of the loop of lines 207-251 (or its exit)  *)
FKSAPlace ==
  /\ scheme = "FKSA"
  /\ pc = "place"
  /\ UNCHANGED << params, attempts, size_,
                  dsize_index, displacements, size_index, end_, jsize_index,
                  capacity_, buckets, sorted_bucket_indices, probe, cursor,
                  oob, yielded >>
  /\ IF i >= VecSize(buckets)
     THEN ReturnTrue /\ UNCHANGED << positions, jumps, elements, mask, i >>
     ELSE \E r \in { FKSAPlacement(buckets[sorted_bucket_indices[i + 1]]) } :
          LET b      == sorted_bucket_indices[i + 1]
              bucket == buckets[b]
          IN  IF Len(bucket) = 0
              THEN ReturnTrue
                   /\ UNCHANGED << positions, jumps, elements, mask, i >>
              ELSE IF ~r.found
              THEN ReturnFalse
                   /\ UNCHANGED << positions, jumps, elements, mask, i >>
              ELSE /\ elements' = FKSAWrite(bucket, 1, r.offsets, r.pos, elements)
                   /\ mask' = [p \in DOMAIN mask |->
                                 mask[p] /\ \A j \in 1 .. Len(bucket) :
                                              p # r.pos + r.offsets[j]]
                   /\ positions' = [positions EXCEPT ![b] = r.pos]
                   /\ jumps' = [jumps EXCEPT ![b] = r.jmp]
                   /\ i' = i + 1
                   /\ UNCHANGED << lambda, pc, status >>

(* find(), lines 122-133: the position computed before elements is read   *)
FKSAProbePos(x) ==
  LET hash == h(x)
      jpos == jump_position(hash)
  IN  fksa_element_position(hash, positions[jpos], jumps[jpos])

(* a read past the end of elements yields some value of T *)
ReadElement(pos) ==
  IF pos \in DOMAIN elements THEN { elements[pos] } ELSE Keys

FKSAFindResults(x) ==
  IF size_ = 0 THEN { size_ }
  ELSE { IF ~pred(x, e) THEN size_ ELSE FKSAProbePos(x)
         : e \in ReadElement(FKSAProbePos(x)) }

FKSAFind ==
  /\ scheme = "FKSA"
  /\ pc = "done"
  /\ status = "ok"
  /\ \E x \in Keys :
       /\ probe' = << x >>
       /\ cursor' \in FKSAFindResults(x)
       /\ oob' = (size_ # 0 /\ FKSAProbePos(x) \notin DOMAIN elements)
  /\ yielded' = << >>
  /\ UNCHANGED << params, lambda, pc, status,
                  attempts, setVars, buckets, sorted_bucket_indices, i >>

(* ------------------ fks::perfect_set, growing array -------------------- *)

(* wd<56 of a 64-bit word: seven eighths of the word *)
WidthLimit == (WordBits * 7) \div 8

(* jump_info::set: ((~(size_t(-1)<<width))<<8)+shift *)
width_shift(shift, width) == (Pow2(width) - 1) * 256 + shift

fksb_jump_default == [pos |-> 0, width_shift |-> 0]

(* element_position(hash, jmp), lines 252-256 *)
fksb_element_position(hash, jmp) ==
  jmp.pos + BitAnd(Shr(hash, Byte(jmp.width_shift)), jmp.width_shift \div 256)

FKSBPositions(bucket, jmp) ==
  [j \in 1 .. Len(bucket) |-> fksb_element_position(bucket[j].hash, jmp)]

(* lines 215-238: the first sh of the inner loop under which the members' *)
(* positions differ                                                        *)
RECURSIVE FKSBSearchSh(_, _, _, _)
FKSBSearchSh(bucket, pos, wd, sh) ==
  IF ~(sh < WordBits) THEN [found |-> FALSE]
  ELSE LET jmp == [pos |-> pos, width_shift |-> width_shift(sh, wd)]
       IN  IF Distinct(FKSBPositions(bucket, jmp))
           THEN [found |-> TRUE, wd |-> wd, jmp |-> jmp]
           ELSE FKSBSearchSh(bucket, pos, wd, sh + 1)

(* lines 214-239: the first (wd, sh) in loop order; when the loops run out *)
(* the entry keeps the last candidate written by jmp.set                   *)
RECURSIVE FKSBSearch(_, _, _)
FKSBSearch(bucket, pos, wd) ==
  IF ~(wd < WidthLimit)
  THEN [found |-> FALSE, wd |-> wd,
        jmp |-> IF WidthLimit = 0 THEN [pos |-> pos, width_shift |-> 0]
                ELSE [pos |-> pos,
                      width_shift |-> width_shift(WordBits - 1, WidthLimit - 1)]]
  ELSE IF FKSBSearchSh(bucket, pos, wd, 0).found
       THEN FKSBSearchSh(bucket, pos, wd, 0)
       ELSE FKSBSearch(bucket, pos, wd + 1)

(* lines 229-235 *)
RECURSIVE FKSBWrite(_, _, _, _)
FKSBWrite(bucket, j, jmp, elems) ==
  IF j > Len(bucket) THEN elems
  ELSE FKSBWrite(bucket, j + 1, jmp,
                 [elems EXCEPT ![fksb_element_position(bucket[j].hash, jmp)] =
                    input[bucket[j].it]])

(* construct(), lines 174-204 *)
FKSBBegin ==
  /\ scheme = "FKSB"
  /\ pc = "loop"
  /\ lambda # 0
  /\ attempts' = Append(attempts, lambda)
  /\ jsize_index' = upper_size_index(Len(input) \div lambda)
  /\ jumps' = Resize(jumps, upper_size(jsize_index'), fksb_jump_default)
  /\ elements' = Resize(elements, 1, DefaultT)
  /\ mask' = [p \in {0} |-> FALSE]
  /\ capacity_' = 1
  /\ buckets' = Classify(VecSize(jumps'),
                         [it \in 1 .. Len(input) |->
                            upper_position(h(input[it]), jsize_index')])
  /\ i' = 0
  /\ IF FKSHashPairsOf(buckets') # {}
     THEN Throw(FKSDuplicateKind(buckets'))
     ELSE pc' = "place" /\ UNCHANGED << lambda, status >>
  /\ UNCHANGED << params, size_, dsize_index,
                  displacements, size_index, end_, positions,
                  sorted_bucket_indices, probe, cursor, oob, yielded >>

(* construct(), one iteration of the loop of lines 207-242 (or its exit)  *)
FKSBPlace ==
  /\ scheme = "FKSB"
  /\ pc = "place"
  /\ UNCHANGED << params, attempts, size_,
                  dsize_index, displacements, size_index, end_, jsize_index,
                  positions, buckets, sorted_bucket_indices, probe, cursor,
                  oob, yielded >>
  /\ IF i >= VecSize(buckets)
     THEN ReturnTrue /\ UNCHANGED << jumps, elements, mask, capacity_, i >>
     ELSE \E r \in { FKSBSearch(buckets[i], capacity_, 0) } :
          \E cap \in { capacity_ + Pow2(r.wd) } :
          LET bucket == buckets[i]
          IN  IF Len(bucket) = 0
              THEN /\ i' = i + 1
                   /\ UNCHANGED << jumps, elements, mask, capacity_, lambda,
                                   pc, status >>
              ELSE IF ~r.found
              THEN /\ ReturnFalse
                   /\ jumps' = [jumps EXCEPT ![i] = r.jmp]
                   /\ UNCHANGED << elements, mask, capacity_, i >>
              ELSE /\ jumps' = [jumps EXCEPT ![i] = r.jmp]
                   /\ capacity_' = cap
                   /\ elements' =
                        FKSBWrite(bucket, 1, r.jmp,
                                  Resize(elements, cap, DefaultT))
                   /\ mask' =
                        [p \in 0 .. cap - 1 |->
                           \/ (p \in DOMAIN mask /\ mask[p])
                           \/ \E j \in 1 .. Len(bucket) :
                                p = fksb_element_position(bucket[j].hash, r.jmp)]
                   /\ i' = i + 1
                   /\ UNCHANGED << lambda, pc, status >>

(* find(), lines 126-141: the position computed before mask / elements    *)
(* are read                                                                *)
FKSBProbePos(x) ==
  LET hash == h(x)
  IN  fksb_element_position(hash, jumps[jump_position(hash)])

(* a read past the end of mask yields some bit *)
ReadMask(pos) ==
  IF pos \in DOMAIN mask THEN { mask[pos] } ELSE BOOLEAN

FKSBFindResults(x) ==
  LET pos == FKSBProbePos(x)
  IN  IF UseMask
      THEN { IF ~m \/ ~pred(x, e) THEN capacity_ ELSE pos
             : m \in ReadMask(pos), e \in ReadElement(pos) }
      ELSE { IF ~pred(x, e) THEN capacity_ ELSE pos : e \in ReadElement(pos) }

FKSBFind ==
  /\ scheme = "FKSB"
  /\ pc = "done"
  /\ status = "ok"
  /\ \E x \in Keys :
       /\ probe' = << x >>
       /\ cursor' \in FKSBFindResults(x)
       /\ oob' = (FKSBProbePos(x) \notin DOMAIN elements)
  /\ yielded' = << >>
  /\ UNCHANGED << params, lambda, pc, status,
                  attempts, setVars, buckets, sorted_bucket_indices, i >>

(* end(): the stored iterator (hd), begin()+size_ or begin()+capacity_ *)
TraversalEnd ==
  IF scheme = "HD" THEN end_
  ELSE IF scheme = "FKSA" THEN size_ ELSE capacity_

(* for(it=begin();it!=end();++it): iterator is the element array's         *)
(* const_iterator, so every slot from begin() up to end() is yielded       *)
Traversal == [k \in 1 .. TraversalEnd |-> elements[k - 1]]

Traverse ==
  /\ pc = "done"
  /\ status = "ok"
  /\ yielded' = << Traversal >>
  /\ probe' = << >>
  /\ cursor' = TraversalEnd
  /\ oob' = FALSE
  /\ UNCHANGED << params, lambda, pc, status,
                  attempts, setVars, buckets, sorted_bucket_indices, i >>

(* a test that builds the same input again, in a new object, with half    *)
(* the lambda that has just succeeded                                      *)
Reconstruct ==
  /\ pc = "done"
  /\ status = "ok"
  /\ prev_lambda = 0
  /\ lambda >= 2
  /\ prev_lambda' = lambda
  /\ lambda0' = lambda \div 2
  /\ lambda' = lambda \div 2
  /\ pc' = "loop"
  /\ status' = "running"
  /\ attempts' = <<>>
  /\ size_' = 0
  /\ dsize_index' = 0
  /\ displacements' = EmptyVec
  /\ size_index' = 0
  /\ end_' = 0
  /\ jsize_index' = 0
  /\ positions' = EmptyVec
  /\ jumps' = EmptyVec
  /\ capacity_' = 0
  /\ elements' = EmptyVec
  /\ mask' = EmptyVec
  /\ buckets' = EmptyVec
  /\ sorted_bucket_indices' = <<>>
  /\ i' = 0
  /\ probe' = << >>
  /\ cursor' = 0
  /\ oob' = FALSE
  /\ yielded' = << >>
  /\ UNCHANGED << scheme, UseMask, shiftUB, input, retried >>

(* the data members of the set; mask is a member of the growing-array fks  *)
(* set only (a local of construct() in the other two)                      *)
Members ==
  [size_ |-> size_, dsize_index |-> dsize_index,
   displacements |-> displacements, size_index |-> size_index,
   end_ |-> end_, jsize_index |-> jsize_index, positions |-> positions,
   jumps |-> jumps, capacity_ |-> capacity_, elements |-> elements,
   mask |-> IF scheme = "FKSB" THEN mask ELSE EmptyVec]

(* a test that keeps the members of a set that was built after failed      *)
(* attempts and builds the same input again, in a new object, with the     *)
(* lambda that succeeded as the constructor's argument                     *)
BuildDirectly ==
  /\ pc = "done"
  /\ status = "ok"
  /\ Len(attempts) >= 2
  /\ retried = << >>
  /\ retried' = << Members, sorted_bucket_indices >>
  /\ lambda0' = lambda
  /\ lambda' = lambda
  /\ pc' = "loop"
  /\ status' = "running"
  /\ attempts' = <<>>
  /\ size_' = 0
  /\ dsize_index' = 0
  /\ displacements' = EmptyVec
  /\ size_index' = 0
  /\ end_' = 0
  /\ jsize_index' = 0
  /\ positions' = EmptyVec
  /\ jumps' = EmptyVec
  /\ capacity_' = 0
  /\ elements' = EmptyVec
  /\ mask' = EmptyVec
  /\ buckets' = EmptyVec
  /\ sorted_bucket_indices' = <<>>
  /\ i' = 0
  /\ probe' = << >>
  /\ cursor' = 0
  /\ oob' = FALSE
  /\ yielded' = << >>
  /\ UNCHANGED << scheme, UseMask, shiftUB, input, prev_lambda >>

(* ---------------------------- specifications --------------------------- *)

Builds == { "wrap", "zero" }

InitHD == InitWith({"HD"}, {TRUE}, {"wrap"}, Inputs, Lambdas)

NextHD == HDBegin \/ HDPlace \/ ConstructionFailure \/ HDFind \/ Traverse

SpecHD == InitHD /\ [][NextHD]_vars

InitFKSB == InitWith({"FKSB"}, BOOLEAN, {"wrap"}, Inputs, Lambdas)

NextFKSB ==
  FKSBBegin \/ FKSBPlace \/ ConstructionFailure \/ FKSBFind \/ Traverse

SpecFKSB == InitFKSB /\ [][NextFKSB]_vars

InitFKS ==
  \/ InitWith({"FKSA"}, {TRUE}, Builds, Inputs, Lambdas)
  \/ InitFKSB

NextFKS ==
  \/ FKSABegin
  \/ FKSAPlace
  \/ FKSAFind
  \/ FKSBBegin
  \/ FKSBPlace
  \/ FKSBFind
  \/ ConstructionFailure
  \/ Traverse

SpecFKS == InitFKS /\ [][NextFKS]_vars

(* inputs of up to MaxN + 1 keys, among them pairs of equal hash and pairs  *)
(* no displacement tells apart                                             *)
DupKeys == { 0, Pow2(HalfBits), 1, Word + 1 }

InitHDDup ==
  InitWith({"HD"}, {TRUE}, {"wrap"}, SeqsUpTo(DupKeys, MaxN + 1), Lambdas)

SpecHDDup == InitHDDup /\ [][NextHD]_vars

Init == InitHD \/ InitFKS

NextHalving ==
  \/ HDBegin
  \/ HDPlace
  \/ FKSABegin
  \/ FKSAPlace
  \/ FKSBBegin
  \/ FKSBPlace
  \/ ConstructionFailure
  \/ Reconstruct

(* four keys that fall into one bucket of four, or into two buckets of two *)
(* at half the lambda                                                      *)
HalvingKeys ==
  { 1, 3, Pow2(HalfBits) + 1, Pow2(WordBits - 2) + Pow2(HalfBits) + 3 }

InitHalving ==
  \/ Init
  \/ InitWith({"HD"}, {TRUE}, {"wrap"}, SeqsUpTo(HalvingKeys, MaxN + 1),
              Lambdas)

SpecHalving == InitHalving /\ [][NextHalving]_vars

Next ==
  \/ HDBegin
  \/ HDPlace
  \/ HDFind
  \/ FKSABegin
  \/ FKSAPlace
  \/ FKSAFind
  \/ FKSBBegin
  \/ FKSBPlace
  \/ FKSBFind
  \/ ConstructionFailure
  \/ Traverse

Spec == Init /\ [][Next]_vars

(* inputs whose construction fails at the lambda given and succeeds at a   *)
(* smaller one: keys that share the high bit and differ in the lowest and  *)
(* in a high bit, beside keys of the other half                            *)
RetryKeys ==
  { 0, 2, Pow2(WordBits - 2), Pow2(WordBits - 1), Pow2(WordBits - 1) + 1,
    Pow2(WordBits - 1) + Pow2(WordBits - 2) }

InitRetry ==
  InitWith({"HD", "FKSA", "FKSB"}, {TRUE}, {"wrap"},
           SeqsUpTo(RetryKeys, MaxN), Lambdas)

NextRetry ==
  \/ HDBegin
  \/ HDPlace
  \/ HDFind
  \/ FKSABegin
  \/ FKSAPlace
  \/ FKSAFind
  \/ FKSBBegin
  \/ FKSBPlace
  \/ FKSBFind
  \/ ConstructionFailure
  \/ BuildDirectly

SpecRetry == InitRetry /\ [][NextRetry]_vars

(* ------------------------------- claims -------------------------------- *)

N == Len(input)

InInput(x) == \E it \in 1 .. N : pred(x, input[it])

DistinctHashes ==
  \A a, b \in 1 .. N : a # b => h(input[a]) # h(input[b])

Constructed == pc = "done" /\ status = "ok"

Found == Constructed /\ probe # << >>

(* the sort left buckets of equal size in index order, as a stable sort    *)
(* would                                                                   *)
TiesInIndexOrder ==
  \A a, b \in 1 .. Len(sorted_bucket_indices) :
    (a < b /\ Len(buckets[sorted_bucket_indices[a]]) =
              Len(buckets[sorted_bucket_indices[b]]))
      => sorted_bucket_indices[a] < sorted_bucket_indices[b]

(* C1: hd::perfect_set built from keys with pairwise distinct hashes:      *)
(* find(k) of an inserted key k returns a cursor other than end() whose    *)
(* element is Pred-equal to k (stated for the runs in which the sort kept  *)
(* equal-sized buckets in index order).                                    *)
C1_HDCompleteness ==
  (scheme = "HD" /\ Found /\ DistinctHashes /\ InInput(probe[1])
     /\ TiesInIndexOrder)
    => (cursor # end_ /\ pred(probe[1], elements[cursor]))

(* end() of the two fks sets *)
FKSEnd == IF scheme = "FKSA" THEN size_ ELSE capacity_

(* C2: both fks::perfect_set variants: find(k) of an inserted key k        *)
(* returns a cursor other than end() whose element is Pred-equal to k.     *)
C2_FKSCompleteness ==
  (scheme \in {"FKSA", "FKSB"} /\ Found /\ InInput(probe[1]))
    => /\ cursor # FKSEnd
       /\ cursor \in DOMAIN elements
       /\ pred(probe[1], elements[cursor])

(* an inserted key of a bucket with two or more members was looked up *)
C2_Witness ==
  /\ scheme \in {"FKSA", "FKSB"}
  /\ Found
  /\ InInput(probe[1])
  /\ Len(buckets[jump_position(h(probe[1]))]) >= 2
  /\ cursor # FKSEnd

(* C3: hd::perfect_set: find(k) of a key k that is Pred-equal to no input  *)
(* key returns end(), the empty set included.                              *)
C3_HDSoundness ==
  (scheme = "HD" /\ Found /\ ~InInput(probe[1])) => cursor = end_

(* an absent key whose computed position is a slot of the array was        *)
(* looked up                                                               *)
C3_Witness ==
  /\ scheme = "HD"
  /\ Found
  /\ ~InInput(probe[1])
  /\ HDProbePos(probe[1]) < size_
  /\ cursor = end_

(* C4: fks::perfect_set with growing array, with and without the mask      *)
(* check: find(k) of a key k that is Pred-equal to no input key returns    *)
(* end() (stated for the lookups that stay inside the arrays).             *)
C4_FKSBSoundness ==
  (scheme = "FKSB" /\ Found /\ ~InInput(probe[1]) /\ ~oob)
    => cursor = capacity_

(* the input has two entries with equal hash *)
EqualHashes == ~DistinctHashes

(* the first entry, in input order, whose hash an earlier entry has, and   *)
(* the first earlier entry with that hash                                  *)
LaterEntry ==
  CHOOSE j \in 1 .. N :
    /\ \E k \in 1 .. j - 1 : h(input[k]) = h(input[j])
    /\ \A j2 \in 1 .. j - 1 :
         \A k \in 1 .. j2 - 1 : h(input[k]) # h(input[j2])

EarlierEntry ==
  CHOOSE k \in 1 .. LaterEntry - 1 :
    /\ h(input[k]) = h(input[LaterEntry])
    /\ \A k2 \in 1 .. k - 1 : h(input[k2]) # h(input[LaterEntry])

ExpectedDuplicate ==
  IF pred(input[LaterEntry], input[EarlierEntry])
  THEN "duplicate_element" ELSE "duplicate_hash"

(* no placement step has run in the current object: no jump entry and no   *)
(* element slot has been written                                           *)
NothingPlaced ==
  /\ i = 0
  /\ \A p \in DOMAIN elements : elements[p] = DefaultT
  /\ \A p \in DOMAIN positions : positions[p] = 0
  /\ \A b \in DOMAIN jumps :
       jumps[b] = IF scheme = "FKSA" THEN jump_info_default
                  ELSE fksb_jump_default

DuplicateRaisedInClassification ==
  /\ status # "ok"
  /\ pc # "place"
  /\ pc = "done" => /\ status = ExpectedDuplicate
                    /\ Len(attempts) = 1
                    /\ NothingPlaced

(* C5 as stated, for every lambda0: both fks sets, input with two entries  *)
(* of equal hash: construction never returns a Set and ends in             *)
(* classification, before any placement, with DuplicateElement when the    *)
(* later entry is Pred-equal to the first earlier entry of equal hash and  *)
(* DuplicateHash otherwise.                                                *)
C5_AnyLambda ==
  (scheme \in {"FKSA", "FKSB"} /\ EqualHashes)
    => DuplicateRaisedInClassification

(* C5: the same, for lambda0 >= 1 (with lambda0 = 0 no attempt is made and *)
(* ConstructionFailure is raised instead).                                 *)
C5_FKSDuplicates ==
  (scheme \in {"FKSA", "FKSB"} /\ EqualHashes /\ lambda0 >= 1)
    => DuplicateRaisedInClassification

(* an input with a Pred-equal pair and a pair of different keys with equal *)
(* hash was rejected                                                       *)
C5_Witness ==
  /\ scheme \in {"FKSA", "FKSB"}
  /\ lambda0 >= 1
  /\ pc = "done"
  /\ \E a, b \in 1 .. N : a # b /\ input[a] = input[b]
  /\ \E a, b \in 1 .. N :
       input[a] # input[b] /\ h(input[a]) = h(input[b])
  /\ status = "duplicate_hash"

(* C6: hd::perfect_set, input with two entries of equal hash, lambda0 >= 1: *)
(* DuplicateElement or DuplicateHash is raised in the first attempt: no     *)
(* second attempt, no ConstructionFailure, no Set (stated for the runs in   *)
(* which the sort kept equal-sized buckets in index order).                 *)
C6_HDDuplicatesImmediate ==
  (scheme = "HD" /\ EqualHashes /\ lambda0 >= 1 /\ TiesInIndexOrder)
    => /\ status \notin {"ok", "construction_failure"}
       /\ Len(attempts) <= 1
       /\ pc = "done" => status \in {"duplicate_element", "duplicate_hash"}

(* C7: the constructor calls construct() with lambda0, lambda0/2, ... in   *)
(* that order and only with lambda > 0; it stops at the first attempt that *)
(* does not return false; ConstructionFailure is raised exactly when every *)
(* lambda of the chain was tried and failed; lambda0 = 0 makes no attempt  *)
(* and fails, default_lambda makes at most three attempts.                 *)
C7_Driver ==
  /\ attempts # << >> => attempts[1] = lambda0
  /\ \A k \in 1 .. Len(attempts) :
       /\ attempts[k] > 0
       /\ k > 1 => attempts[k] = attempts[k - 1] \div 2
  /\ pc = "loop" =>
       lambda = IF attempts = << >> THEN lambda0
                ELSE attempts[Len(attempts)] \div 2
  /\ pc = "place" => lambda = attempts[Len(attempts)]
  /\ (pc = "done" /\ status # "construction_failure") =>
       /\ attempts # << >>
       /\ lambda = attempts[Len(attempts)]
  /\ (pc = "done" /\ status = "construction_failure") =>
       /\ lambda = 0
       /\ Len(attempts) = bit_width(lambda0)
  /\ lambda0 = 0 => attempts = << >>
  /\ lambda0 = default_lambda =>
       /\ Len(attempts) <= 3
       /\ \A k \in 1 .. Len(attempts) : attempts[k] = << 4, 2, 1 >>[k]

(* every lambda of the default chain 4, 2, 1 was tried and failed *)
C7_Witness ==
  /\ lambda0 = default_lambda
  /\ pc = "done"
  /\ status = "construction_failure"
  /\ attempts = << 4, 2, 1 >>

(* the slots that hold a key: the marked ones where the set keeps a mask,  *)
(* every slot of the array otherwise                                       *)
OccupiedSlots ==
  IF scheme = "FKSB" THEN { p \in DOMAIN elements : mask[p] }
  ELSE DOMAIN elements

(* 2^w of a jump entry of the growing-array set *)
SubTableSize(b) == jumps[b].width_shift \div 256 + 1

RECURSIVE SumSubTables(_)
SumSubTables(bs) ==
  IF bs = {} THEN 0
  ELSE LET b == CHOOSE x \in bs : TRUE
       IN  SubTableSize(b) + SumSubTables(bs \ {b})

NonEmptyBuckets == { b \in DOMAIN buckets : Len(buckets[b]) > 0 }

OneSlotPerKey ==
  /\ Cardinality(OccupiedSlots) = N
  /\ \A it \in 1 .. N :
       Cardinality({ p \in OccupiedSlots : elements[p] = input[it] }) = 1
  /\ scheme = "HD" => VecSize(elements) = N /\ end_ = N
  /\ scheme = "FKSA" => VecSize(elements) = N /\ size_ = N
  /\ scheme = "FKSB" => VecSize(elements) = capacity_ /\ capacity_ >= N

(* C8 as stated: after a successful construction N slots hold the N keys,  *)
(* one each; the array has length N (HD, shared-array fks) or C >= N       *)
(* (growing-array fks) with C at most the sum of 2^w over the jump entries. *)
C8_SumBound ==
  Constructed =>
    /\ OneSlotPerKey
    /\ scheme = "FKSB" => capacity_ <= SumSubTables(DOMAIN jumps)

(* C8: the same, with C equal to one sentinel slot plus the sum of 2^w     *)
(* over the non-empty buckets.                                             *)
C8_Sizes ==
  Constructed =>
    /\ OneSlotPerKey
    /\ scheme = "FKSB" => capacity_ = 1 + SumSubTables(NonEmptyBuckets)

(* a growing-array set of MaxN keys with a sub-table of more than one slot *)
C8_Witness ==
  /\ scheme = "FKSB"
  /\ Constructed
  /\ N >= 3
  /\ \E b \in NonEmptyBuckets : SubTableSize(b) >= 2
  /\ capacity_ > N + 1

HalvedAttemptSucceeds ==
  /\ ~(pc = "loop" /\ attempts # << >>)
  /\ pc = "done" => /\ status = "ok"
                    /\ attempts = << prev_lambda \div 2 >>

(* C9 as stated, for the three sets: an object built from the same input   *)
(* with half the lambda that has just succeeded (prev_lambda >= 2): its    *)
(* first attempt does not return false and does not throw.                 *)
C9_AllSets == prev_lambda # 0 => HalvedAttemptSucceeds

(* C9: the same, for the growing-array fks set, whose buckets are placed   *)
(* independently of each other.                                            *)
C9_HalvingMonotone ==
  (scheme = "FKSB" /\ prev_lambda # 0) => HalvedAttemptSucceeds

(* the rebuilt growing-array set has a larger jump table than the one      *)
(* built before                                                            *)
C9_Witness ==
  /\ scheme = "FKSB"
  /\ prev_lambda = 2
  /\ Constructed
  /\ N >= 3
  /\ VecSize(buckets) = 4

TableSize ==
  IF scheme = "HD" THEN VecSize(displacements) ELSE VecSize(jumps)

BucketIndex(hash) ==
  IF scheme = "HD" THEN displacement_position(hash) ELSE jump_position(hash)

IsPow2(n) == \E e \in 0 .. WordBits : n = Pow2(e)

Requested == IF N \div lambda >= min_size THEN N \div lambda ELSE min_size

(* C10: right after a construction that succeeded at lambda the table      *)
(* length is the smallest power of two >= max(N / lambda, 2), the position *)
(* table of the shared-array set has the same length, and every hash maps  *)
(* to an index inside the table.                                           *)
C10_TableSize ==
  (Constructed /\ probe = << >>) =>
    /\ IsPow2(TableSize)
    /\ TableSize >= Requested
    /\ \A m \in 1 .. TableSize - 1 : IsPow2(m) => m < Requested
    /\ scheme = "FKSA" => VecSize(positions) = TableSize
    /\ \A hash \in 0 .. Word - 1 : BucketIndex(hash) \in 0 .. TableSize - 1

(* three keys at lambda 1: a request of three buckets rounded up to four *)
C10_Witness ==
  /\ Constructed
  /\ probe = << >>
  /\ N \div lambda = 3
  /\ TableSize = 4

(* C11: hd::perfect_set, after any number of failed attempts: find(k) of   *)
(* any key reads elements[pos] only with pos < N, the displacement it      *)
(* fetches is an entry of the table, and a computed pos >= N gives end().  *)
C11_HDLookupInBounds ==
  (scheme = "HD" /\ Found) =>
    /\ ~oob
    /\ VecSize(elements) = N
    /\ displacement_position(h(probe[1])) \in DOMAIN displacements
    /\ \A p \in HDReads(probe[1]) : p < N
    /\ HDProbePos(probe[1]) >= N => cursor = end_

(* a set built at the second attempt was asked for a key whose position    *)
(* falls into the virtual part of the extended array                       *)
C11_Witness ==
  /\ scheme = "HD"
  /\ Found
  /\ Len(attempts) >= 2
  /\ HDProbePos(probe[1]) >= N
  /\ cursor = end_

Traversed == Constructed /\ yielded # << >>

(* C12: a traversal from begin() to end() yields exactly the N stored      *)
(* keys, each once, and no slot that holds no input key (the growing-array *)
(* set's sentinel and unused sub-table slots are skipped).                 *)
C12_Traversal ==
  Traversed =>
    /\ Len(yielded[1]) = N
    /\ \A it \in 1 .. N :
         Cardinality({ k \in 1 .. Len(yielded[1]) :
                         yielded[1][k] = input[it] }) = 1

DescendingSizes ==
  \A a, b \in 1 .. Len(sorted_bucket_indices) :
    a < b => Len(buckets[sorted_bucket_indices[a]]) >=
               Len(buckets[sorted_bucket_indices[b]])

(* C13: hd and shared-array fks: the placement loop runs over the buckets  *)
(* in descending order of size, buckets of equal size in ascending bucket  *)
(* index (the order that makes two constructions of one input agree).      *)
C13_DeterministicOrder ==
  (scheme \in {"HD", "FKSA"} /\ pc = "place")
    => (DescendingSizes /\ TiesInIndexOrder)

(* the entry lookup fetches for the members of bucket b sends each member  *)
(* to the slot that holds it                                               *)
EntryPlacesBucket(b) ==
  \A j \in 1 .. Len(buckets[b]) :
    LET pos == element_position(buckets[b][j].hash, displacements[b])
    IN  pos < size_ /\ elements[pos] = input[buckets[b][j].it]

(* C14: hd::perfect_set: the pair committed for bucket b is stored in      *)
(* entry b of the displacement table, so after a successful construction   *)
(* every non-empty bucket's own entry holds the pair found for it (stated  *)
(* for the runs in which the sort kept equal-sized buckets in index        *)
(* order).                                                                 *)
C14_HDCommitEntry ==
  (scheme = "HD" /\ Constructed /\ TiesInIndexOrder)
    => \A b \in DOMAIN buckets : EntryPlacesBucket(b)

(* the buckets the placement loop of the current attempt has committed *)
CommittedBuckets ==
  IF scheme = "FKSB"
  THEN { b \in DOMAIN buckets : b < i /\ Len(buckets[b]) > 0 }
  ELSE { sorted_bucket_indices[k] : k \in 1 .. i }

(* the slot the commit of bucket b wrote its j-th member to *)
CommittedSlot(b, j) ==
  IF scheme = "HD"
  THEN LET k == CHOOSE k \in 1 .. i : sorted_bucket_indices[k] = b
       IN  element_position(buckets[b][j].hash,
                            displacements[HDCommitIndex(k - 1)])
  ELSE IF scheme = "FKSA"
  THEN fksa_element_position(buckets[b][j].hash, positions[b], jumps[b])
  ELSE fksb_element_position(buckets[b][j].hash, jumps[b])

(* << input position, slot >> of every committed key *)
Committed ==
  UNION { { << buckets[b][j].it, CommittedSlot(b, j) >>
            : j \in 1 .. Len(buckets[b]) } : b \in CommittedBuckets }

(* the occupancy mask says taken: set bits in hd and growing-array fks,    *)
(* cleared bits in shared-array fks (true --> available)                   *)
Taken(p) == IF scheme = "FKSA" THEN ~mask[p] ELSE mask[p]

SubTable(b) == jumps[b].pos .. jumps[b].pos + SubTableSize(b) - 1

(* C15: at every point of an attempt's placement loop, and after it        *)
(* succeeded: committed keys sit in pairwise different slots, each slot    *)
(* still holds its key, the mask marks exactly these slots, and the        *)
(* growing-array set's sub-tables are disjoint ranges above slot 0.        *)
C15_Injective ==
  (pc = "place" \/ Constructed) =>
    /\ \A c1, c2 \in Committed : c1[1] # c2[1] => c1[2] # c2[2]
    /\ \A c \in Committed :
         c[2] \in DOMAIN elements /\ elements[c[2]] = input[c[1]]
    /\ \A p \in DOMAIN mask : Taken(p) <=> \E c \in Committed : c[2] = p
    /\ scheme = "FKSB" =>
         /\ \A b \in CommittedBuckets :
              0 \notin SubTable(b) /\ SubTable(b) \subseteq 0 .. capacity_ - 1
         /\ \A b1, b2 \in CommittedBuckets :
              b1 # b2 => SubTable(b1) \cap SubTable(b2) = {}

(* three keys of two or more buckets are committed and the loop goes on *)
C15_Witness ==
  /\ pc = "place"
  /\ i >= 2
  /\ Cardinality(Committed) >= 3

(* the bucket the placement loop of the shared-array set is at *)
CurrentBucket == buckets[sorted_bucket_indices[i + 1]]

AtBucket ==
  /\ scheme = "FKSA"
  /\ pc = "place"
  /\ i < VecSize(buckets)
  /\ Len(CurrentBucket) > 0

MinWidth(bucket) == popcount(bit_ceil(Len(bucket)) - 1)

(* the (sh, wd) the loops of lines 214-215 go through for the current      *)
(* bucket: every pair of the ranges, in loop order, up to the one that is  *)
(* committed                                                               *)
IteratedCandidates ==
  LET r == FKSAPlacement(CurrentBucket)
  IN  { c \in (0 .. WordBits - MinWidth(CurrentBucket))
                \X (MinWidth(CurrentBucket) .. WordBits - 1) :
          r.found => \/ c[1] < r.sh
                     \/ (c[1] = r.sh /\ c[2] <= r.wd) }

(* C16: shared-array fks: for every (sh, wd) the solver iterates the two   *)
(* shift counts of the jump entry are below the word width and the offset  *)
(* of every hash is the wd-bit window of the hash starting at bit sh.      *)
C16_WindowExtraction ==
  AtBucket =>
    \A c \in IteratedCandidates :
      LET jmp == jump_info_set(c[1], c[2])
      IN  /\ jmp.shl \in 0 .. WordBits - 1
          /\ jmp.shr \in 0 .. WordBits - 1
          /\ \A hash \in 0 .. Word - 1 :
               element_offset(hash, jmp) = (hash \div Pow2(c[1])) % Pow2(c[2])

(* the base positions of 0 .. last at which every member's slot is free    *)
(* and inside the element array (the test of lines 229-231)                *)
FreeBases(offsets, last) == { p \in 0 .. last : FKSAFree(offsets, p) }

(* C17: shared-array fks: for a bucket whose offsets are pairwise distinct *)
(* under the current (sh, wd), the solver tries every base position of     *)
(* 0 .. N - max_off in ascending order and commits at the smallest one at  *)
(* which every slot is free and inside the array; a bucket is placed       *)
(* whenever such a position exists, a bucket of all N keys included.       *)
C17_SlidingSearch ==
  AtBucket =>
    \A c \in IteratedCandidates :
      LET offsets == Offsets(CurrentBucket, jump_info_set(c[1], c[2]))
          max_off == bit_ceil(Len(CurrentBucket)) - 1
          bases   == FreeBases(offsets, size_ - max_off)
      IN  (Distinct(offsets) /\ bases # {}) =>
            /\ FKSAFirstPos(offsets, max_off, 0) \in bases
            /\ \A p \in bases : FKSAFirstPos(offsets, max_off, 0) <= p

(* C18: shared-array fks: for every constructed set of N >= 1 keys and     *)
(* every key looked up, present or absent, the position find() computes    *)
(* is below N before elements[position] is read.                           *)
C18_FKSALookupInBounds ==
  (scheme = "FKSA" /\ Found /\ size_ >= 1) =>
    /\ ~oob
    /\ FKSAProbePos(probe[1]) < size_

(* C19: growing-array fks: for every constructed set, built at the first   *)
(* attempt or after failed ones, find() reads mask and elements only at a  *)
(* position below capacity(), and every bucket that is empty in the        *)
(* successful attempt has the jump entry (pos 0, shift 0, width 0).        *)
C19_FKSBLookupInBounds ==
  /\ (scheme = "FKSB" /\ Found) =>
       /\ ~oob
       /\ FKSBProbePos(probe[1]) < capacity_
  /\ (scheme = "FKSB" /\ Constructed) =>
       \A b \in DOMAIN buckets :
         Len(buckets[b]) = 0 => jumps[b] = fksb_jump_default

(* the input was built after failed attempts, then built again with the    *)
(* lambda that succeeded, and the sort left the buckets in the same order  *)
BuiltBothWays ==
  /\ Constructed
  /\ retried # << >>
  /\ sorted_bucket_indices = retried[2]

(* C20: all three sets: when construction succeeds at a lambda below the   *)
(* one given, after failed attempts, the members of the set (jump or       *)
(* displacement table with the entries of empty buckets, positions,        *)
(* elements, size indices) are those of the set built directly with that   *)
(* lambda.                                                                 *)
C20_NoTrace == BuiltBothWays => Members = retried[1]

(* the placement loop of the hd set is at a bucket of exactly one member *)
AtSingleton ==
  /\ scheme = "HD"
  /\ pc = "place"
  /\ i < VecSize(buckets)
  /\ Len(buckets[sorted_bucket_indices[i + 1]]) = 1

(* construct() has just returned false *)
AttemptFailed == pc = "loop" /\ attempts # << >>

(* C21: hd: on an input of pairwise distinct hashes a bucket of exactly    *)
(* one member never exhausts the displacement search of lines 188-208,     *)
(* whatever slots earlier buckets took; hence an attempt in which every    *)
(* bucket has at most one member does not return false.                    *)
C21_SingletonsPlace ==
  /\ (AtSingleton /\ DistinctHashes) =>
       HDSearch(buckets[sorted_bucket_indices[i + 1]],
                upper_size(size_index), 0) # NoDisplacement
  /\ (scheme = "HD" /\ AttemptFailed /\ DistinctHashes) =>
       \E b \in DOMAIN buckets : Len(buckets[b]) >= 2

(* a set of three or more keys built at the first attempt from buckets of  *)
(* at most one member, one of which had to move past the first candidate   *)
C21_Witness ==
  /\ scheme = "HD"
  /\ Constructed
  /\ DistinctHashes
  /\ Len(attempts) = 1
  /\ N >= 3
  /\ \A b \in DOMAIN buckets : Len(buckets[b]) <= 1
  /\ \E k \in DOMAIN displacements :
       k < N /\ displacements[k] # displacement_info(0, 0)

====
